---- MODULE Spec2Model ----
(***************************************************************************)
(* Model of the city CRUD backend (src/backend/index.ts): an express app   *)
(* whose handlers read and write one MongoDB collection through mongoose.  *)
(* Strings are sequences of one-character strings, so that the regular     *)
(* expressions the handlers build from request text are evaluated, not     *)
(* assumed to be literal comparisons.                                      *)
(***************************************************************************)
EXTENDS Integers, Sequences, FiniteSets, TLC

VARIABLES cities, nextId, pc, req, loc, resp

vars == <<cities, nextId, pc, req, loc, resp>>

---------------------------------------------------------------------------
(* Bounds of the model *)

\* ids the store may hand out when requests are handled one at a time
MaxId == 3
\* ids the store may hand out when requests are in flight together
MaxRaceId == 2
\* largest count value a request carries
MaxCount == 1
\* largest page number a search request carries
MaxPage == 2
\* number of requests that may be in flight together
NumProcs == 2
\* ids the store may hand out in the paging specification
MaxPagingId == 7

\* const pageSize = 5
pageSize == 5

Procs == 1..NumProcs

---------------------------------------------------------------------------
(* Request text *)

\* the absent id / absent document (findOne, findById... resolve to null)
NoId == 0
NoCity == [id |-> NoId, cityName |-> <<>>, count |-> 0]

\* names a create or update body may carry: empty, case variants, a name
\* extending another, and names holding regex metacharacters
Names ==
  { <<>>, <<"a">>, <<"A">>, <<"a", "b">>, <<"a", ".">>, <<"a", "$">>, <<"(">> }

\* names made of letters only
PlainNames == { n \in Names : \A i \in 1..Len(n) : n[i] \in {"a", "A", "b"} }

\* counts a create or update body may carry: a negative one, and positive
\* ones
Counts == {0 - 1} \cup (1..MaxCount)

\* search terms of GET /api/cities
Terms == { <<>>, <<"a">>, <<"A", "B">>, <<".">>, <<"b", "$">>, <<"(">> }

\* page query values; 0 stands for an absent or unparsable page
Pages == 0..MaxPage

\* String.prototype.toLowerCase on the letters of the model ('i' option)
Lower(c) == IF c = "A" THEN "a" ELSE IF c = "B" THEN "b" ELSE c

LowerStr(s) == [i \in 1..Len(s) |-> Lower(s[i])]

\* two strings equal ignoring letter case
EqIgnoreCase(s, t) == LowerStr(s) = LowerStr(t)

\* t occurs in s as a literal substring, ignoring letter case
ContainsIgnoreCase(s, t) ==
  \E i \in 1..(Len(s) - Len(t) + 1) :
    LowerStr(SubSeq(s, i, i + Len(t) - 1)) = LowerStr(t)

---------------------------------------------------------------------------
(* Regular expressions: new RegExp(src, 'i') and { $regex, $options: 'i' } *)

\* the pattern compiles: an opening parenthesis is never closed in the
\* modelled alphabet, which is a syntax error (unterminated group)
RegexValid(pat) == \A i \in 1..Len(pat) : pat[i] # "("

\* pat matches s starting at position i: "^" and "$" are assertions,
\* "." is any character, every other character matches itself ignoring case
RECURSIVE MatchHere(_, _, _)
MatchHere(pat, s, i) ==
  IF pat = <<>> THEN TRUE
  ELSE LET h == Head(pat)
           t == Tail(pat)
       IN  IF h = "^" THEN i = 1 /\ MatchHere(t, s, i)
           ELSE IF h = "$" THEN i = Len(s) + 1 /\ MatchHere(t, s, i)
           ELSE IF h = "." THEN i <= Len(s) /\ MatchHere(t, s, i + 1)
           ELSE i <= Len(s) /\ Lower(s[i]) = Lower(h) /\ MatchHere(t, s, i + 1)

\* an unanchored regex test: the pattern matches somewhere in s
RegexTest(pat, s) == \E i \in 1..(Len(s) + 1) : MatchHere(pat, s, i)

\* `^${cityName}$`
AnchoredPattern(cityName) == <<"^">> \o cityName \o <<"$">>

---------------------------------------------------------------------------
(* The collection: documents in natural (insertion) order *)

Ids(cs) == { cs[i].id : i \in 1..Len(cs) }

Min(a, b) == IF a <= b THEN a ELSE b

\* Math.ceil(total / pageSize)
Ceil(total, size) == (total + size - 1) \div size

\* the documents a { cityName: { $regex: pat, $options: 'i' } } filter selects
Matching(cs, pat) == SelectSeq(cs, LAMBDA c : RegexTest(pat, c.cityName))

\* City.countDocuments(query)
countDocuments(cs, pat) == Len(Matching(cs, pat))

\* City.find(query).skip(k).limit(n)
findSkipLimit(cs, pat, k, n) ==
  LET m == Matching(cs, pat)
  IN  SubSeq(m, k + 1, Min(Len(m), k + n))

\* City.findOne({ cityName: { $regex }, _id: { $ne: exclId } }); with
\* exclId = NoId no document is excluded
findOne(cs, pat, exclId) ==
  LET m == SelectSeq(cs, LAMBDA c : RegexTest(pat, c.cityName) /\ c.id # exclId)
  IN  IF m = <<>> THEN NoCity ELSE Head(m)

\* City.findById(id)
findById(cs, id) ==
  LET m == SelectSeq(cs, LAMBDA c : c.id = id)
  IN  IF m = <<>> THEN NoCity ELSE Head(m)

\* the schema's validators, run by save(): both paths are required, and
\* mongoose's required validator rejects the empty string
SchemaValid(cityName, count) == cityName # <<>>

\* the _id a new document gets: never one handed out before
NewId(nid) == nid

\* a save that replaces the documents of the same name (an upsert by name)
saveUpsert(cs, id, cityName, count) ==
  Append(SelectSeq(cs, LAMBDA c : ~EqIgnoreCase(c.cityName, cityName)),
         [id |-> id, cityName |-> cityName, count |-> count])

\* newCity.save(): the collection with the new document appended
save(cs, id, cityName, count) ==
  Append(cs, [id |-> id, cityName |-> cityName, count |-> count])

\* City.findByIdAndUpdate(id, { cityName, count }, { new: true }): the
\* fields are set without running the schema's validators
findByIdAndUpdate(cs, id, cityName, count) ==
  [i \in 1..Len(cs) |->
     IF cs[i].id = id
       THEN [id |-> id, cityName |-> cityName, count |-> count]
       ELSE cs[i]]

\* a delete that finds the document and removes none
findByIdAndDeleteNone(cs, id) == cs

\* City.findByIdAndDelete(id)
findByIdAndDelete(cs, id) == SelectSeq(cs, LAMBDA c : c.id # id)

---------------------------------------------------------------------------
(* Requests and responses *)

NoReq ==
  [kind |-> "none", id |-> NoId, cityName |-> <<>>, count |-> 0,
   search |-> <<>>, page |-> 0]

CreateReq(cityName, count) ==
  [NoReq EXCEPT !.kind = "create", !.cityName = cityName, !.count = count]

UpdateReq(id, cityName, count) ==
  [NoReq EXCEPT !.kind = "update", !.id = id, !.cityName = cityName,
                !.count = count]

DeleteReq(id) == [NoReq EXCEPT !.kind = "delete", !.id = id]

GetReq(id) == [NoReq EXCEPT !.kind = "get", !.id = id]

SearchReq(search, page) ==
  [NoReq EXCEPT !.kind = "search", !.search = search, !.page = page]

\* a response: the status, and the body's city or page of cities
NoResp ==
  [req |-> NoReq, status |-> 0, city |-> NoCity, cities |-> <<>>,
   total |-> 0, page |-> 0, totalPages |-> 0]

\* res.status(status).json({ error }) and res.json(city)
Respond(r, status, city) ==
  [NoResp EXCEPT !.req = r, !.status = status, !.city = city]

\* what a handler (or its last step) leaves behind
Outcome(cs, nid, rsp) == [cities |-> cs, nextId |-> nid, resp |-> rsp]

---------------------------------------------------------------------------
(* Handlers, each cut at its awaits *)

\* POST /cities up to the first await's result: the RegExp constructor
\* throws, or the findOne finds a city, or the handler goes on to save
PostCitiesCheck(cs, r) ==
  IF ~RegexValid(AnchoredPattern(r.cityName)) THEN "throw"
  ELSE IF findOne(cs, AnchoredPattern(r.cityName), NoId) # NoCity THEN "exists"
  ELSE "write"

\* POST /cities from new City(...) on: save() validates, then inserts
PostCitiesSave(cs, nid, r) ==
  IF ~SchemaValid(r.cityName, r.count)
    THEN Outcome(cs, nid, Respond(r, 400, NoCity))
    ELSE LET newCity == [id |-> NewId(nid), cityName |-> r.cityName,
                         count |-> r.count]
         IN  Outcome(save(cs, newCity.id, r.cityName, r.count), nid + 1,
                     Respond(r, 201, newCity))

\* POST /cities, run to completion
PostCities(cs, nid, r) ==
  LET k == PostCitiesCheck(cs, r)
  IN  IF k = "throw" THEN Outcome(cs, nid, Respond(r, 400, NoCity))
      ELSE IF k = "exists" THEN Outcome(cs, nid, Respond(r, 409, NoCity))
      ELSE PostCitiesSave(cs, nid, r)

\* GET /cities/:id
GetCity(cs, nid, r) ==
  LET city == findById(cs, r.id)
  IN  IF city = NoCity THEN Outcome(cs, nid, Respond(r, 404, NoCity))
      ELSE Outcome(cs, nid, Respond(r, 200, city))

\* PUT /cities/:id up to the first await's result
PutCitiesCheck(cs, r) ==
  IF ~RegexValid(AnchoredPattern(r.cityName)) THEN "throw"
  ELSE IF findOne(cs, AnchoredPattern(r.cityName), r.id) # NoCity THEN "exists"
  ELSE "write"

\* PUT /cities/:id from findByIdAndUpdate on
PutCitiesUpdate(cs, nid, r) ==
  LET after == findByIdAndUpdate(cs, r.id, r.cityName, r.count)
      updatedCity == findById(after, r.id)
  IN  IF updatedCity = NoCity THEN Outcome(cs, nid, Respond(r, 404, NoCity))
      ELSE Outcome(after, nid, Respond(r, 200, updatedCity))

\* PUT /cities/:id, run to completion
PutCities(cs, nid, r) ==
  LET k == PutCitiesCheck(cs, r)
  IN  IF k = "throw" THEN Outcome(cs, nid, Respond(r, 400, NoCity))
      ELSE IF k = "exists" THEN Outcome(cs, nid, Respond(r, 400, NoCity))
      ELSE PutCitiesUpdate(cs, nid, r)

\* DELETE /cities/:id
DeleteCities(cs, nid, r) ==
  IF findById(cs, r.id) = NoCity
    THEN Outcome(cs, nid, Respond(r, 404, NoCity))
    ELSE Outcome(findByIdAndDelete(cs, r.id), nid, Respond(r, 200, NoCity))

\* parseInt(req.query.page) || 1
PageOf(r) == IF r.page = 0 THEN 1 ELSE r.page

\* GET /api/cities: the store rejects a pattern that does not compile,
\* which fails the first await
GetApiCitiesThrows(r) == ~RegexValid(r.search)

\* GET /api/cities, the first await's result: the total
GetApiCitiesCount(cs, r) == countDocuments(cs, r.search)

\* a skip counted from page 0
SkipFromPage(page) == page * pageSize

\* the skip of the find query
Skip(page) == (page - 1) * pageSize

\* GET /api/cities from the find query on, with the total counted before
GetApiCitiesFind(cs, nid, r, total) ==
  Outcome(cs, nid,
          [NoResp EXCEPT !.req = r, !.status = 200,
                         !.cities = findSkipLimit(cs, r.search,
                                                  Skip(PageOf(r)), pageSize),
                         !.total = total, !.page = PageOf(r),
                         !.totalPages = Ceil(total, pageSize)])

\* GET /api/cities, run to completion
GetApiCities(cs, nid, r) ==
  IF GetApiCitiesThrows(r) THEN Outcome(cs, nid, Respond(r, 500, NoCity))
  ELSE GetApiCitiesFind(cs, nid, r, GetApiCitiesCount(cs, r))

---------------------------------------------------------------------------
(* State *)

TypeOK ==
  /\ cities \in Seq([id : 1..(MaxPagingId + NumProcs), cityName : Seq(STRING),
                     count : Int])
  /\ nextId \in Nat
  /\ pc \in [Procs -> {"idle", "save", "update", "find"}]
  /\ DOMAIN req = Procs /\ DOMAIN loc = Procs
  /\ resp.status \in {0, 200, 201, 400, 404, 409, 500}

\* an empty collection, no request in flight, nothing answered yet; resp is
\* the response sent last
Init ==
  /\ cities = <<>>
  /\ nextId = 1
  /\ pc = [p \in Procs |-> "idle"]
  /\ req = [p \in Procs |-> NoReq]
  /\ loc = [p \in Procs |-> 0]
  /\ resp = NoResp

\* the ids a request path may carry: handed out or not, stored or not
ReqIds == 1..MaxId

\* p's handler ends: the store is as the outcome says and p has its answer
Finish(p, out) ==
  /\ cities' = out.cities
  /\ nextId' = out.nextId
  /\ resp' = out.resp
  /\ pc' = [pc EXCEPT ![p] = "idle"]
  /\ req' = [req EXCEPT ![p] = NoReq]
  /\ loc' = [loc EXCEPT ![p] = 0]

\* p's handler suspends at its second await
Await(p, r, at, val) ==
  /\ pc' = [pc EXCEPT ![p] = at]
  /\ req' = [req EXCEPT ![p] = r]
  /\ loc' = [loc EXCEPT ![p] = val]
  /\ UNCHANGED <<cities, nextId, resp>>

---------------------------------------------------------------------------
(* Requests handled one at a time: each handler runs to completion *)

Create ==
  \E n \in Names, c \in Counts :
    /\ nextId <= MaxId
    /\ Finish(1, PostCities(cities, nextId, CreateReq(n, c)))

Read ==
  \E i \in ReqIds : Finish(1, GetCity(cities, nextId, GetReq(i)))

Update ==
  \E i \in ReqIds, n \in Names, c \in Counts :
    Finish(1, PutCities(cities, nextId, UpdateReq(i, n, c)))

Delete ==
  \E i \in ReqIds : Finish(1, DeleteCities(cities, nextId, DeleteReq(i)))

Search ==
  \E t \in Terms, g \in Pages :
    Finish(1, GetApiCities(cities, nextId, SearchReq(t, g)))

Next == Create \/ Read \/ Update \/ Delete \/ Search

Spec == Init /\ [][Next]_vars

---------------------------------------------------------------------------
(* Requests in flight together: a handler's awaits are separate steps, and *)
(* the steps of different requests interleave                              *)

\* bodies of the concurrent requests: plain names, two of them equal
\* ignoring case
RaceNames == { <<"a">>, <<"A">>, <<"a", "b">> }

RaceCounts == {MaxCount}

RaceIds == 1..MaxRaceId

\* an arriving request takes the first free slot: which slot holds a
\* request in flight makes no difference to any handler
Free(p) == pc[p] = "idle" /\ \A q \in Procs : q < p => pc[q] # "idle"

\* creates that passed their check and have not saved yet
Saving == { q \in Procs : pc[q] = "save" }

\* POST /cities arrives and runs to its second await, or to its answer
CreateBegin(p) ==
  /\ Free(p)
  /\ nextId + Cardinality(Saving) <= MaxRaceId
  /\ \E n \in RaceNames, c \in RaceCounts :
       LET r == CreateReq(n, c)
           k == PostCitiesCheck(cities, r)
       IN  IF k = "write" THEN Await(p, r, "save", 0)
           ELSE Finish(p, PostCities(cities, nextId, r))

\* POST /cities resumes: save and answer
CreateSave(p) ==
  /\ pc[p] = "save"
  /\ Finish(p, PostCitiesSave(cities, nextId, req[p]))

\* PUT /cities/:id arrives and runs to its second await, or to its answer
UpdateBegin(p) ==
  /\ Free(p)
  /\ \E i \in RaceIds, n \in RaceNames, c \in RaceCounts :
       LET r == UpdateReq(i, n, c)
           k == PutCitiesCheck(cities, r)
       IN  IF k = "write" THEN Await(p, r, "update", 0)
           ELSE Finish(p, PutCities(cities, nextId, r))

\* PUT /cities/:id resumes: findByIdAndUpdate and answer
UpdateWrite(p) ==
  /\ pc[p] = "update"
  /\ Finish(p, PutCitiesUpdate(cities, nextId, req[p]))

\* DELETE /cities/:id: its one await
DeleteNow(p) ==
  /\ Free(p)
  /\ \E i \in RaceIds : Finish(p, DeleteCities(cities, nextId, DeleteReq(i)))

NextConc ==
  \E p \in Procs :
    \/ CreateBegin(p)
    \/ CreateSave(p)
    \/ UpdateBegin(p)
    \/ UpdateWrite(p)
    \/ DeleteNow(p)

SpecConc == Init /\ [][NextConc]_vars

---------------------------------------------------------------------------
(* A search in flight while creates and deletes commit, on a collection    *)
(* large enough to span pages                                              *)

\* the name of the k-th city the client creates: a, b, aa, ab, ba, bb, ...
\* (all different, also ignoring case)
RECURSIVE PagingName(_)
PagingName(k) ==
  IF k = 0 THEN <<>>
  ELSE PagingName((k - 1) \div 2) \o <<IF k % 2 = 1 THEN "a" ELSE "b">>

PagingTerms == { <<>>, <<"B">>, <<"a", ".">>, <<"(">> }

\* the request searching, and the one writing
Reader == 1
Writer == NumProcs

\* a create commits
PagingCreate ==
  /\ nextId <= MaxPagingId
  /\ pc[Writer] = "idle"
  /\ Finish(Writer, PostCities(cities, nextId, CreateReq(PagingName(nextId), 1)))

\* a delete commits
PagingDelete ==
  /\ pc[Writer] = "idle"
  /\ \E i \in 1..MaxPagingId :
       Finish(Writer, DeleteCities(cities, nextId, DeleteReq(i)))

\* GET /api/cities arrives and runs to its second await (the total is in
\* hand), or to its answer
SearchBegin(p) ==
  /\ pc[p] = "idle"
  /\ \E t \in PagingTerms, g \in Pages :
       LET r == SearchReq(t, g)
       IN  IF GetApiCitiesThrows(r)
             THEN Finish(p, GetApiCities(cities, nextId, r))
             ELSE Await(p, r, "find", GetApiCitiesCount(cities, r))

\* GET /api/cities resumes: find and answer
SearchFind(p) ==
  /\ pc[p] = "find"
  /\ Finish(p, GetApiCitiesFind(cities, nextId, req[p], loc[p]))

NextPaging ==
  \/ PagingCreate
  \/ PagingDelete
  \/ SearchBegin(Reader)
  \/ SearchFind(Reader)

SpecPaging == Init /\ [][NextPaging]_vars

---------------------------------------------------------------------------
(* Properties *)

Max(a, b) == IF a >= b THEN a ELSE b

\* a handler answered in this step (a step repeating the last request with
\* the same answer on an unchanged store is a stuttering step)
Answered == resp' # resp \/ cities' # cities

\* the documents of a collection, as a set
Docs(cs) == { cs[i] : i \in 1..Len(cs) }

\* two stored cities have names equal ignoring letter case
HasDuplicate(cs) ==
  \E i, j \in 1..Len(cs) :
    i < j /\ EqIgnoreCase(cs[i].cityName, cs[j].cityName)

\* the size of page p's window on n matching cities
Window(n, p) == Min(pageSize, Max(0, n - pageSize * (p - 1)))

\* C1: with requests handled one at a time, no two stored cities have names
\* that are equal ignoring letter case.
C1_UniqueNames == ~HasDuplicate(cities)

\* C3: a create with a non-empty name and a valid count, handled alone,
\* answers 409 and leaves the store unchanged exactly when some stored name
\* equals the requested one ignoring case; otherwise it answers 201 and the
\* store gains exactly one city with a fresh id and the requested name and
\* count, which getById of the returned id yields.
C3_CreateOutcome ==
  [][ (Answered /\ resp'.req.kind = "create"
         /\ resp'.req.cityName # <<>> /\ resp'.req.count >= 0)
      => LET r == resp'.req
         IN  IF \E c \in Docs(cities) : EqIgnoreCase(c.cityName, r.cityName)
               THEN resp'.status = 409 /\ cities' = cities
               ELSE /\ resp'.status = 201
                    /\ cities' = Append(cities, resp'.city)
                    /\ resp'.city.id \notin Ids(cities)
                    /\ resp'.city.id >= nextId
                    /\ resp'.city.cityName = r.cityName
                    /\ resp'.city.count = r.count
                    /\ GetCity(cities', nextId', GetReq(resp'.city.id)).resp.city
                         = resp'.city ]_vars

\* C4: for distinct stored cities A and B, an update of A to B's name in
\* any letter case answers 400 and changes nothing; an update of A that
\* keeps A's own name answers 200 and applies the new count.
C4_UpdateOutcome ==
  [][ (Answered /\ resp'.req.kind = "update")
      => LET r == resp'.req
         IN  \A A \in Docs(cities) :
               A.id = r.id =>
                 /\ (\E B \in Docs(cities) :
                        B.id # A.id /\ EqIgnoreCase(B.cityName, r.cityName))
                      => resp'.status = 400 /\ cities' = cities
                 /\ r.cityName = A.cityName
                      => /\ resp'.status = 200
                         /\ resp'.city = [A EXCEPT !.count = r.count]
                         /\ Docs(cities') =
                              (Docs(cities) \ {A}) \cup {resp'.city} ]_vars

\* C5: an update whose id resolves to no stored city answers 404 and leaves
\* the store unchanged, whatever name and count it carries (here: for the
\* names made of letters only, whose check cannot throw).
C5_UpdateMissing ==
  [][ (Answered /\ resp'.req.kind = "update"
         /\ resp'.req.cityName \in PlainNames
         /\ resp'.req.id \notin Ids(cities))
      => resp'.status = 404 /\ cities' = cities ]_vars

C7_Pagination ==
  (resp.req.kind = "search" /\ resp.req.page >= 1)
    => /\ resp.status = 200
       /\ resp.total = Len(Matching(cities, resp.req.search))
       /\ resp.totalPages = Ceil(resp.total, pageSize)
       /\ Len(resp.cities) = Window(resp.total, resp.req.page)

\* pages 1..n of a search for term, one after the other
RECURSIVE PagesUpTo(_, _, _)
PagesUpTo(cs, term, n) ==
  IF n = 0 THEN <<>>
  ELSE PagesUpTo(cs, term, n - 1)
         \o GetApiCities(cs, 0, SearchReq(term, n)).resp.cities

\* C8: over pages 1..totalPages a search returns exactly the stored cities
\* whose name contains the term as a literal substring ignoring case, each
\* once.
C8_LiteralSubstring ==
  resp.req.kind = "search"
    => PagesUpTo(cities, resp.req.search, resp.totalPages)
         = SelectSeq(cities,
                     LAMBDA c : ContainsIgnoreCase(c.cityName, resp.req.search))

\* C9: every stored city has a non-empty cityName and a count >= 0.
C9_StoredValid ==
  \A c \in Docs(cities) : c.cityName # <<>> /\ c.count >= 0

\* C2: a create or update that passed its uniqueness check still writes and
\* answers with success when a request in flight with it has meanwhile
\* committed a name equal ignoring case: the store then holds two cities
\* whose names are equal ignoring case.
C2_Race ==
  [][ \A p \in Procs :
        ( /\ pc[p] \in {"save", "update"} /\ pc'[p] = "idle"
          /\ pc[p] = "update" => req[p].id \in Ids(cities)
          /\ \E c \in Docs(cities) :
               c.id # req[p].id /\ EqIgnoreCase(c.cityName, req[p].cityName) )
        => /\ resp'.req = req[p]
           /\ resp'.status = (IF pc[p] = "save" THEN 201 ELSE 200)
           /\ resp'.city \in Docs(cities')
           /\ resp'.city.cityName = req[p].cityName
           /\ \E c \in Docs(cities') :
                /\ c.id # resp'.city.id
                /\ EqIgnoreCase(c.cityName, resp'.city.cityName) ]_vars

\* C2 witness: both creates were answered 201 and the store holds two cities
\* whose names differ only in letter case.
C2_BothStored ==
  /\ resp.req.kind = "create" /\ resp.status = 201
  /\ \E c \in Docs(cities) :
       /\ c.id # resp.city.id
       /\ c.cityName # resp.city.cityName
       /\ EqIgnoreCase(c.cityName, resp.city.cityName)
  /\ resp.city \in Docs(cities)

\* C10 as claimed: every search response describes a single state of the
\* store: the page holds min(5, max(0, total - 5 * (page - 1))) cities for
\* the total of the same response.
C10_Snapshot ==
  (resp.req.kind = "search" /\ resp.status = 200)
    => Len(resp.cities) = Window(resp.total, resp.page)

\* C10 as amended: total is the number of matching cities when the count
\* query ran, and the page holds min(5, max(0, n - 5 * (page - 1))) cities
\* for n the number of matching cities when the find query ran.
C10_TwoReads ==
  [][ \A p \in Procs :
        /\ (pc[p] = "idle" /\ pc'[p] = "find")
             => loc'[p] = Len(Matching(cities, req'[p].search))
        /\ (pc[p] = "find" /\ pc'[p] = "idle")
             => /\ resp'.status = 200
                /\ resp'.total = loc[p]
                /\ resp'.totalPages = Ceil(loc[p], pageSize)
                /\ Len(resp'.cities) =
                     Window(Len(Matching(cities, req[p].search)), resp'.page)
                /\ \A i \in 1..Len(resp'.cities) :
                     resp'.cities[i] =
                       Matching(cities, req[p].search)
                         [pageSize * (resp'.page - 1) + i] ]_vars

\* C10 witness: a search of page 2 was answered with cities on the page,
\* and a write committed between its count and its find (the total it
\* reports is not the number of cities matching in the store it read).
C10_TornPage ==
  /\ resp.req.kind = "search" /\ resp.status = 200
  /\ resp.page = 2 /\ Len(resp.cities) >= 1
  /\ resp.total # Len(Matching(cities, resp.req.search))

====
